---- MODULE Spec2Model ----
(***************************************************************************)
(* Model of the lookup benchmark of experimento_busca.py (structure        *)
(* factory, timed probes, block runner, descriptive statistics) and of the *)
(* Welch t-test computations of analise_resultados.py and                  *)
(* calcular_estatisticas.py.                                               *)
(*                                                                         *)
(* Python integers are unbounded while TLC integers are 32-bit, and the    *)
(* runner clamps at 2^32 - 1.  An integer v is therefore carried as the    *)
(* pair <<hi, lo>> with v = hi * 2^16 + lo and 0 <= lo < 2^16.             *)
(***************************************************************************)
EXTENDS Integers, Sequences, FiniteSets, TLC

\* ------------------------------------------------------------------------
\* Bounds of the model
\* ------------------------------------------------------------------------
MaxElementos == 1
MaxBuscas == 3
MaxBlocks == 2
MaxSample == 2
MaxLen == 4
MaxVal == 4
MaxN == 5
MaxW == 3
MaxWVal == 2

\* ------------------------------------------------------------------------
\* Python int arithmetic on <<hi, lo>> pairs
\* ------------------------------------------------------------------------
BASE == 2^16

ToNum(v) == <<v \div BASE, v % BASE>>

NumAdd(a, b) == <<a[1] + b[1] + ((a[2] + b[2]) \div BASE), (a[2] + b[2]) % BASE>>

\* k * a for a small natural k
NumScale(k, a) == <<k * a[1] + ((k * a[2]) \div BASE), (k * a[2]) % BASE>>

NumLeq(a, b) == a[1] < b[1] \/ (a[1] = b[1] /\ a[2] <= b[2])

NumLt(a, b) == NumLeq(a, b) /\ a # b

NumMin(a, b) == IF NumLeq(a, b) THEN a ELSE b

RECURSIVE NumSum(_)
NumSum(s) == IF s = <<>> THEN ToNum(0) ELSE NumAdd(Head(s), NumSum(Tail(s)))

Min2(a, b) == IF a <= b THEN a ELSE b

\* ------------------------------------------------------------------------
\* calcular_estatisticas_simples (experimento_busca.py)
\* ------------------------------------------------------------------------
RECURSIVE InsertSorted(_, _)
InsertSorted(s, x) ==
    IF s = <<>> THEN <<x>>
    ELSE IF NumLeq(x, Head(s)) THEN <<x>> \o s
    ELSE <<Head(s)>> \o InsertSorted(Tail(s), x)

\* variant: the input is used unsorted
sorted_sem_ordenar(s) == s

RECURSIVE sorted(_)
sorted(s) == IF s = <<>> THEN <<>> ELSE InsertSorted(sorted(Tail(s)), Head(s))

RECURSIVE SeqMin(_)
SeqMin(s) == IF Len(s) = 1 THEN s[1] ELSE NumMin(s[1], SeqMin(Tail(s)))

RECURSIVE SeqMax(_)
SeqMax(s) ==
    IF Len(s) = 1 THEN s[1]
    ELSE LET m == SeqMax(Tail(s)) IN IF NumLeq(s[1], m) THEN m ELSE s[1]

\* quantil with q = q4 / 4.  The result is returned multiplied by 4: with
\* q in {0.25, 0.5, 0.75} every float operation of the source is exact and
\* the result is a multiple of 1/4.  Sequences are 1-based here.
\* variant: the two interpolation weights exchanged
quantil_pesos_trocados(sorted_arr, n, q4) ==
    LET pos4  == q4 * (n - 1)
        lo    == pos4 \div 4
        hi    == Min2(lo + 1, n - 1)
        frac4 == pos4 - 4 * lo
    IN  NumAdd(NumScale(frac4, sorted_arr[lo + 1]),
               NumScale(4 - frac4, sorted_arr[hi + 1]))

quantil(sorted_arr, n, q4) ==
    LET pos4  == q4 * (n - 1)
        lo    == pos4 \div 4
        hi    == Min2(lo + 1, n - 1)
        frac4 == pos4 - 4 * lo
    IN  NumAdd(NumScale(4 - frac4, sorted_arr[lo + 1]),
               NumScale(frac4, sorted_arr[hi + 1]))

ErroVazia == "Lista de valores vazia para calculo estatistico."

\* variant: an empty list summarised as a record of zeros
calcular_estatisticas_simples_zeros_para_vazia(valores) ==
    LET n == Len(valores)
        sorted_vals == sorted(valores)
    IN  IF n = 0
        THEN [erro    |-> "",
              n       |-> 0,
              media   |-> <<ToNum(0), 1>>,
              mediana |-> ToNum(0),
              q1      |-> ToNum(0),
              q3      |-> ToNum(0),
              min     |-> ToNum(0),
              max     |-> ToNum(0)]
        ELSE [erro    |-> "",
              n       |-> n,
              media   |-> <<NumSum(valores), n>>,
              mediana |-> quantil(sorted_vals, n, 2),
              q1      |-> quantil(sorted_vals, n, 1),
              q3      |-> quantil(sorted_vals, n, 3),
              min     |-> SeqMin(valores),
              max     |-> SeqMax(valores)]

\* mediana, q1, q3 are carried multiplied by 4; media as the pair
\* <<sum, n>>.  pstdev (a float square root) is not carried.
calcular_estatisticas_simples(valores) ==
    LET n == Len(valores)
        sorted_vals == sorted(valores)
    IN  IF n = 0
        THEN [erro |-> ErroVazia]
        ELSE [erro    |-> "",
              n       |-> n,
              media   |-> <<NumSum(valores), n>>,
              mediana |-> quantil(sorted_vals, n, 2),
              q1      |-> quantil(sorted_vals, n, 1),
              q3      |-> quantil(sorted_vals, n, 3),
              min     |-> SeqMin(valores),
              max     |-> SeqMax(valores)]

\* ------------------------------------------------------------------------
\* criar_estruturas (experimento_busca.py): range(n) is the set of the
\* integers k with 0 <= k < n (empty when n <= 0); the dict maps each of
\* them to True.  The function has no validation and raises nothing.
\* ------------------------------------------------------------------------
range(n) == {k \in 0..(n - 1) : TRUE}

\* variant: the dict keyed 1..num_elementos
criar_estruturas_chaves_de_1(num_elementos) ==
    [erro        |-> "",
     lista_range |-> range(num_elementos),
     dicionario  |-> [k \in 1..num_elementos |-> TRUE]]

criar_estruturas(num_elementos) ==
    [erro        |-> "",
     lista_range |-> range(num_elementos),
     dicionario  |-> [k \in range(num_elementos) |-> TRUE]]

\* valor in lista_range / valor in dicionario, the membership tests timed by
\* medir_busca_lista and medir_busca_dict
em_lista(valor, lista_range) == valor \in lista_range

em_dict(valor, dicionario) == valor \in DOMAIN dicionario

\* ------------------------------------------------------------------------
\* Floats of the Welch computations.  A finite float is carried as the
\* exact rational <<num, den>> (den > 0, lowest terms) it approximates;
\* NaN and the infinities are values of their own.
\* ------------------------------------------------------------------------
Abs(a) == IF a < 0 THEN 0 - a ELSE a

Sign(a) == IF a < 0 THEN 0 - 1 ELSE IF a = 0 THEN 0 ELSE 1

RECURSIVE GCD(_, _)
GCD(a, b) == IF b = 0 THEN a ELSE GCD(b, a % b)

Rat(num, den) ==
    LET g == GCD(Abs(num), Abs(den))
        sg == Sign(den)
    IN  <<sg * (num \div g), sg * (den \div g)>>

RatAdd(a, b) ==
    LET g == GCD(a[2], b[2])
    IN  Rat(a[1] * (b[2] \div g) + b[1] * (a[2] \div g), (a[2] \div g) * b[2])

RatSub(a, b) == RatAdd(a, <<0 - b[1], b[2]>>)

RatMul(a, b) ==
    LET g1 == GCD(Abs(a[1]), b[2])
        g2 == GCD(Abs(b[1]), a[2])
    IN  <<(a[1] \div g1) * (b[1] \div g2), (a[2] \div g2) * (b[2] \div g1)>>

\* a / b for b # 0
RatDiv(a, b) == RatMul(a, Rat(b[2], b[1]))

NaN == [k |-> "nan"]

Inf(sgn) == [k |-> "inf", s |-> sgn]

Fin(r) == [k |-> "fin", v |-> r]

IsFin(f) == f.k = "fin"

\* numpy float64 arithmetic: NaN propagates, x / 0 is an infinity or NaN
\* (a RuntimeWarning, no exception)
FAdd(a, b) ==
    IF IsFin(a) /\ IsFin(b) THEN Fin(RatAdd(a.v, b.v)) ELSE NaN

FMul(a, b) ==
    IF IsFin(a) /\ IsFin(b) THEN Fin(RatMul(a.v, b.v)) ELSE NaN

np_div(a, b) ==
    IF ~(IsFin(a) /\ IsFin(b)) THEN NaN
    ELSE IF b.v[1] # 0 THEN Fin(RatDiv(a.v, b.v))
    ELSE IF a.v[1] = 0 THEN NaN
    ELSE Inf(Sign(a.v[1]))

FInt(n) == Fin(<<n, 1>>)

RECURSIVE SumSeq(_)
SumSeq(s) == IF s = <<>> THEN 0 ELSE Head(s) + SumSeq(Tail(s))

RECURSIVE SumSq(_)
SumSq(s) == IF s = <<>> THEN 0 ELSE Head(s) * Head(s) + SumSq(Tail(s))

\* np.mean: NaN for an empty array
np_mean(x) == np_div(FInt(SumSeq(x)), FInt(Len(x)))

\* np.var(x, ddof): the sum of squared deviations over n - ddof; NaN when
\* n - ddof <= 0.  The sum of squared deviations is
\* (n * sum(x^2) - sum(x)^2) / n.
np_var(x, ddof) ==
    LET n == Len(x)
    IN  IF n - ddof <= 0 THEN NaN
        ELSE Fin(Rat(n * SumSq(x) - SumSeq(x) * SumSeq(x), n * (n - ddof)))

\* A t statistic is a quotient by a square root: it is carried as its sign
\* and its square.
TStat(diff, se2) ==
    IF ~(IsFin(diff) /\ IsFin(se2)) THEN NaN
    ELSE IF se2.v[1] # 0
         THEN [k |-> "fin", sgn |-> Sign(diff.v[1]),
               sq |-> RatDiv(RatMul(diff.v, diff.v), se2.v)]
    ELSE IF diff.v[1] = 0 THEN NaN
    ELSE Inf(Sign(diff.v[1]))

\* ------------------------------------------------------------------------
\* scipy's Student-t distribution.  Its values are known exactly where the
\* symmetry of the distribution gives them (cdf = sf = 1/2 at t = 0, 0 and
\* 1 at the infinities); elsewhere the value is carried as the call that
\* produced it.  NaN arguments and df <= 0 give NaN.
\* ------------------------------------------------------------------------
None == [k |-> "None"]

\* abs(t)
TAbs(t) ==
    IF t.k = "fin" THEN [t EXCEPT !.sgn = Abs(t.sgn)]
    ELSE IF t.k = "inf" THEN Inf(1)
    ELSE NaN

StudentT(fn, t, df, at_minus_inf, at_plus_inf) ==
    IF t.k = "nan" \/ ~IsFin(df) THEN NaN
    ELSE IF df.v[1] <= 0 THEN NaN
    ELSE IF t.k = "inf" THEN Fin(IF t.s < 0 THEN at_minus_inf ELSE at_plus_inf)
    ELSE IF t.sgn = 0 THEN Fin(<<1, 2>>)
    ELSE [k |-> fn, sgn |-> t.sgn, sq |-> t.sq, df |-> df.v]

\* sps.t.cdf(t, df)
t_cdf(t, df) == StudentT("cdf", t, df, <<0, 1>>, <<1, 1>>)

\* sps.t.sf(t, df)
t_sf(t, df) == StudentT("sf", t, df, <<1, 1>>, <<0, 1>>)

\* 2 * p
Twice(p) ==
    IF p.k = "nan" THEN NaN
    ELSE IF IsFin(p) THEN Fin(RatMul(<<2, 1>>, p.v))
    ELSE [k |-> "2*", p |-> p]

\* 1 - p
OneMinus(p) ==
    IF p.k = "nan" THEN NaN
    ELSE IF IsFin(p) THEN Fin(RatSub(<<1, 1>>, p.v))
    ELSE [k |-> "1-", p |-> p]

\* ------------------------------------------------------------------------
\* welch_ttest (analise_resultados.py), x and y numpy arrays, scipy
\* available; then the one-tailed p-values main adds to its result
\* ------------------------------------------------------------------------
welch_ttest(x, y) ==
    LET n1 == Len(x)
        n2 == Len(y)
        m1 == np_mean(x)
        m2 == np_mean(y)
        s1 == np_var(x, 1)
        s2 == np_var(y, 1)
        se2 == FAdd(np_div(s1, FInt(n1)), np_div(s2, FInt(n2)))
        t  == TStat(FAdd(m1, FMul(FInt(0 - 1), m2)), se2)
        df == np_div(FMul(se2, se2),
                     FAdd(np_div(FMul(s1, s1), FInt((n1 * n1) * (n1 - 1))),
                          np_div(FMul(s2, s2), FInt((n2 * n2) * (n2 - 1)))))
    IN  [erro |-> "", t |-> t, df |-> df,
         p_two |-> Twice(t_sf(TAbs(t), df)), p_left |-> None, p_right |-> None]

\* main: res_welch = welch_ttest(x, y), then p_left and p_right
main_welch(x, y) ==
    LET res_welch == welch_ttest(x, y)
        p_left == t_cdf(res_welch.t, res_welch.df)
    IN  IF res_welch.p_two # None
        THEN [res_welch EXCEPT !.p_left = p_left, !.p_right = OneMinus(p_left)]
        ELSE res_welch

\* ------------------------------------------------------------------------
\* The Welch block of calcular_estatisticas.py: Python floats taken from
\* resumo(), so a division by zero raises ZeroDivisionError; resumo() of an
\* empty array raises inside numpy (np.min of a zero-size array).
\* ------------------------------------------------------------------------
ErroNumpyVazio == "zero-size array to reduction operation minimum which has no identity"

ErroDivisaoPorZero == "ZeroDivisionError: float division by zero"

welch_bloco(x, y) ==
    LET nx == Len(x)
        ny == Len(y)
        mx == np_mean(x)
        my == np_mean(y)
        vx == np_var(x, 0)
        vy == np_var(y, 0)
        se2 == FAdd(np_div(vx, FInt(nx)), np_div(vy, FInt(ny)))
        den == FAdd(np_div(FMul(vx, vx), FInt(nx * nx * (nx - 1))),
                    np_div(FMul(vy, vy), FInt(ny * ny * (ny - 1))))
    IN  IF nx = 0 \/ ny = 0 THEN [erro |-> ErroNumpyVazio]
        ELSE IF se2.v[1] = 0 THEN [erro |-> ErroDivisaoPorZero]
        ELSE IF nx = 1 \/ ny = 1 \/ den.v[1] = 0 THEN [erro |-> ErroDivisaoPorZero]
        ELSE LET t_stat == TStat(FAdd(mx, FMul(FInt(0 - 1), my)), se2)
                 df == np_div(FMul(se2, se2), den)
                 p_left == t_cdf(t_stat, df)
             IN  [erro    |-> "",
                  t       |-> t_stat,
                  df      |-> df,
                  p_two   |-> Twice(t_sf(TAbs(t_stat), df)),
                  p_left  |-> p_left,
                  p_right |-> OneMinus(p_left)]

\* ------------------------------------------------------------------------
\* State
\* ------------------------------------------------------------------------
VARIABLES
    \* block runner: module constants of experimento_busca.py
    NUM_ELEMENTOS, NUM_BUSCAS, N_BLOCKS, TAMANHO_SAMPLE,
    \* block runner: locals of executar_experimento_por_blocos
    pc, erro, lista_range, dicionario, block_size,
    tempos_lista, tempos_dict, amostras, estatisticas_blocos,
    bloco, bloco_coletor_lista, bloco_coletor_dict, i, valor, tl, td,
    stats_glob_lista, stats_glob_dict,
    \* files written so far
    arquivos,
    \* history: the (valor, tl, td) of every executed iteration, raw
    executadas,
    \* a call of calcular_estatisticas_simples
    st_valores, st_ret,
    \* a call of criar_estruturas followed by membership tests
    ce_num, ce_ret, ce_valor, ce_in,
    \* a Welch t-test over two samples
    w_x, w_y, w_analise, w_calc

runnerVars == <<NUM_ELEMENTOS, NUM_BUSCAS, N_BLOCKS, TAMANHO_SAMPLE,
                pc, erro, lista_range, dicionario, block_size,
                tempos_lista, tempos_dict, amostras, estatisticas_blocos,
                bloco, bloco_coletor_lista, bloco_coletor_dict, i, valor,
                tl, td, stats_glob_lista, stats_glob_dict, arquivos,
                executadas>>

statVars == <<st_valores, st_ret>>

ceVars == <<ce_num, ce_ret, ce_valor, ce_in>>

welchVars == <<w_x, w_y, w_analise, w_calc>>

vars == <<runnerVars, statVars, ceVars, welchVars>>

\* the value of a result that has not been computed yet
Nenhum == [erro |-> "nenhum"]

\* the locals of the runner before the function is entered
RunnerLocalsInit ==
    /\ erro = ""
    /\ lista_range = {}
    /\ dicionario = <<>>
    /\ block_size = 0
    /\ tempos_lista = <<>>
    /\ tempos_dict = <<>>
    /\ amostras = <<>>
    /\ estatisticas_blocos = <<>>
    /\ bloco = 0
    /\ bloco_coletor_lista = <<>>
    /\ bloco_coletor_dict = <<>>
    /\ i = 0
    /\ valor = 0
    /\ tl = ToNum(0)
    /\ td = ToNum(0)
    /\ stats_glob_lista = Nenhum
    /\ stats_glob_dict = Nenhum
    /\ arquivos = {}
    /\ executadas = <<>>

RunnerOff ==
    /\ NUM_ELEMENTOS = 0 /\ NUM_BUSCAS = 0 /\ N_BLOCKS = 0 /\ TAMANHO_SAMPLE = 0
    /\ pc = "off"
    /\ RunnerLocalsInit

StatOff == st_valores = <<>> /\ st_ret = Nenhum

CeOff == ce_num = 0 /\ ce_ret = Nenhum /\ ce_valor = 0 /\ ce_in = Nenhum

WelchOff == w_x = <<>> /\ w_y = <<>> /\ w_analise = Nenhum /\ w_calc = Nenhum

\* ------------------------------------------------------------------------
\* Spec: executar_experimento_por_blocos (experimento_busca.py), one step
\* per statement group; pc is the position in the function.
\* ------------------------------------------------------------------------
UINT32_MAX == <<BASE - 1, BASE - 1>>

\* the elapsed times perf_counter_ns can report: 7 ns and 2^32 ns
RawTimes == {ToNum(7), <<BASE, 0>>}

\* variant: the time stored as measured
Clamp_sem_corte(t) == t

\* int(min(t, 2**32 - 1))
Clamp(t) == NumMin(t, UINT32_MAX)

\* variant: the division rounded up
BlockSize_arredonda_para_cima(buscas, blocks) == (buscas + blocks - 1) \div blocks

\* NUM_BUSCAS // N_BLOCKS
BlockSize(buscas, blocks) == buscas \div blocks

\* variant: NUM_BUSCAS = 0 accepted
ValidacaoErro_aceita_zero_buscas ==
    IF N_BLOCKS <= 0 THEN "N_BLOCKS deve ser >= 1."
    ELSE IF NUM_BUSCAS < 0 THEN "NUM_BUSCAS deve ser > 0."
    ELSE IF NUM_ELEMENTOS <= 0 THEN "NUM_ELEMENTOS deve ser > 0."
    ELSE IF TAMANHO_SAMPLE < 0 THEN "TAMANHO_SAMPLE nao pode ser negativo."
    ELSE ""

\* the ValueError raised by the validations, "" when all pass
ValidacaoErro ==
    IF N_BLOCKS <= 0 THEN "N_BLOCKS deve ser >= 1."
    ELSE IF NUM_BUSCAS <= 0 THEN "NUM_BUSCAS deve ser > 0."
    ELSE IF NUM_ELEMENTOS <= 0 THEN "NUM_ELEMENTOS deve ser > 0."
    ELSE IF TAMANHO_SAMPLE < 0 THEN "TAMANHO_SAMPLE nao pode ser negativo."
    ELSE ""

Init ==
    /\ StatOff /\ CeOff /\ WelchOff
    /\ NUM_ELEMENTOS \in (0 - 1)..MaxElementos
    /\ NUM_BUSCAS \in (0 - 1)..MaxBuscas
    /\ N_BLOCKS \in (0 - 1)..MaxBlocks
    /\ TAMANHO_SAMPLE \in (0 - 1)..MaxSample
    /\ pc = "validar"
    /\ RunnerLocalsInit

otherVars == <<statVars, ceVars, welchVars>>

cfgVars == <<NUM_ELEMENTOS, NUM_BUSCAS, N_BLOCKS, TAMANHO_SAMPLE>>

Validar ==
    /\ pc = "validar"
    /\ erro' = ValidacaoErro
    /\ pc' = IF ValidacaoErro = "" THEN "preparo" ELSE "erro"
    /\ UNCHANGED <<cfgVars, otherVars, lista_range, dicionario, block_size,
                   tempos_lista, tempos_dict, amostras, estatisticas_blocos,
                   bloco, bloco_coletor_lista, bloco_coletor_dict, i, valor,
                   tl, td, stats_glob_lista, stats_glob_dict, arquivos,
                   executadas>>

Preparo ==
    /\ pc = "preparo"
    /\ lista_range' = criar_estruturas(NUM_ELEMENTOS).lista_range
    /\ dicionario' = criar_estruturas(NUM_ELEMENTOS).dicionario
    /\ block_size' = BlockSize(NUM_BUSCAS, N_BLOCKS)
    /\ tempos_lista' = <<>>
    /\ tempos_dict' = <<>>
    /\ amostras' = <<>>
    /\ estatisticas_blocos' = <<>>
    /\ bloco' = 0
    /\ pc' = "for_bloco"
    /\ UNCHANGED <<cfgVars, otherVars, erro, bloco_coletor_lista,
                   bloco_coletor_dict, i, valor, tl, td, stats_glob_lista,
                   stats_glob_dict, arquivos, executadas>>

\* variant: the collectors kept from one block to the next
IniciarBloco_sem_reiniciar_coletores ==
    /\ pc = "for_bloco"
    /\ bloco < N_BLOCKS
    /\ i' = 0
    /\ pc' = "for_i"
    /\ UNCHANGED <<cfgVars, otherVars, erro, lista_range, dicionario,
                   block_size, tempos_lista, tempos_dict, amostras,
                   estatisticas_blocos, bloco, valor, tl, td,
                   bloco_coletor_lista, bloco_coletor_dict,
                   stats_glob_lista, stats_glob_dict, arquivos, executadas>>

\* for bloco in range(N_BLOCKS): the block's collectors start empty
IniciarBloco ==
    /\ pc = "for_bloco"
    /\ bloco < N_BLOCKS
    /\ bloco_coletor_lista' = <<>>
    /\ bloco_coletor_dict' = <<>>
    /\ i' = 0
    /\ pc' = "for_i"
    /\ UNCHANGED <<cfgVars, otherVars, erro, lista_range, dicionario,
                   block_size, tempos_lista, tempos_dict, amostras,
                   estatisticas_blocos, bloco, valor, tl, td,
                   stats_glob_lista, stats_glob_dict, arquivos, executadas>>

\* for i in range(block_size): valor = random.randint(0, NUM_ELEMENTOS - 1),
\* which raises ValueError on an empty range
SortearValor ==
    /\ pc = "for_i"
    /\ i < block_size
    /\ IF NUM_ELEMENTOS - 1 < 0
       THEN /\ erro' = "empty range for randrange()"
            /\ pc' = "erro"
            /\ valor' = valor
       ELSE /\ \E v \in 0..(NUM_ELEMENTOS - 1) : valor' = v
            /\ pc' = "medir_lista"
            /\ erro' = erro
    /\ UNCHANGED <<cfgVars, otherVars, lista_range, dicionario, block_size,
                   tempos_lista, tempos_dict, amostras, estatisticas_blocos,
                   bloco, bloco_coletor_lista, bloco_coletor_dict, i, tl, td,
                   stats_glob_lista, stats_glob_dict, arquivos, executadas>>

\* tl = medir_busca_lista(valor, lista_range): the membership result is
\* discarded, the elapsed time is whatever the clock reports
medir_busca_lista ==
    /\ pc = "medir_lista"
    /\ \E t \in RawTimes : tl' = t
    /\ pc' = "medir_dict"
    /\ UNCHANGED <<cfgVars, otherVars, erro, lista_range, dicionario,
                   block_size, tempos_lista, tempos_dict, amostras,
                   estatisticas_blocos, bloco, bloco_coletor_lista,
                   bloco_coletor_dict, i, valor, td, stats_glob_lista,
                   stats_glob_dict, arquivos, executadas>>

\* td = medir_busca_dict(valor, dicionario)
medir_busca_dict ==
    /\ pc = "medir_dict"
    /\ \E t \in RawTimes : td' = t
    /\ pc' = "guardar"
    /\ UNCHANGED <<cfgVars, otherVars, erro, lista_range, dicionario,
                   block_size, tempos_lista, tempos_dict, amostras,
                   estatisticas_blocos, bloco, bloco_coletor_lista,
                   bloco_coletor_dict, i, valor, tl, stats_glob_lista,
                   stats_glob_dict, arquivos, executadas>>

\* variant: the cap test with <= in place of <
Guardar_amostra_a_mais ==
    /\ pc = "guardar"
    /\ tempos_lista' = Append(tempos_lista, Clamp(tl))
    /\ tempos_dict' = Append(tempos_dict, Clamp(td))
    /\ bloco_coletor_lista' = Append(bloco_coletor_lista, Clamp(tl))
    /\ bloco_coletor_dict' = Append(bloco_coletor_dict, Clamp(td))
    /\ amostras' = IF Len(amostras) <= TAMANHO_SAMPLE
                   THEN Append(amostras, <<valor, tl, td>>)
                   ELSE amostras
    /\ executadas' = Append(executadas,
                            [bloco |-> bloco + 1, valor |-> valor,
                             tl |-> tl, td |-> td])
    /\ i' = i + 1
    /\ pc' = "for_i"
    /\ UNCHANGED <<cfgVars, otherVars, erro, lista_range, dicionario,
                   block_size, estatisticas_blocos, bloco, valor, tl, td,
                   stats_glob_lista, stats_glob_dict, arquivos>>

\* the four appends of the clamped times and the capped append of the raw
\* triple to amostras; then the next i
Guardar ==
    /\ pc = "guardar"
    /\ tempos_lista' = Append(tempos_lista, Clamp(tl))
    /\ tempos_dict' = Append(tempos_dict, Clamp(td))
    /\ bloco_coletor_lista' = Append(bloco_coletor_lista, Clamp(tl))
    /\ bloco_coletor_dict' = Append(bloco_coletor_dict, Clamp(td))
    /\ amostras' = IF Len(amostras) < TAMANHO_SAMPLE
                   THEN Append(amostras, <<valor, tl, td>>)
                   ELSE amostras
    /\ executadas' = Append(executadas,
                            [bloco |-> bloco + 1, valor |-> valor,
                             tl |-> tl, td |-> td])
    /\ i' = i + 1
    /\ pc' = "for_i"
    /\ UNCHANGED <<cfgVars, otherVars, erro, lista_range, dicionario,
                   block_size, estatisticas_blocos, bloco, valor, tl, td,
                   stats_glob_lista, stats_glob_dict, arquivos>>

\* bloco_stats of the block just measured
BlocoStats(k, stats_l, stats_d) ==
    [bloco         |-> k,
     n             |-> stats_l.n,
     lista_media   |-> stats_l.media,
     lista_mediana |-> stats_l.mediana,
     lista_q1      |-> stats_l.q1,
     lista_q3      |-> stats_l.q3,
     lista_min     |-> stats_l.min,
     lista_max     |-> stats_l.max,
     dict_media    |-> stats_d.media,
     dict_mediana  |-> stats_d.mediana,
     dict_q1       |-> stats_d.q1,
     dict_q3       |-> stats_d.q3,
     dict_min      |-> stats_d.min,
     dict_max      |-> stats_d.max]

\* variant: the block's statistics taken from the global sequences
CalcularBloco_sobre_tempos_globais ==
    /\ pc = "for_i"
    /\ i >= block_size
    /\ LET stats_l == calcular_estatisticas_simples(tempos_lista)
           stats_d == calcular_estatisticas_simples(tempos_dict)
       IN  IF stats_l.erro # "" \/ stats_d.erro # ""
           THEN /\ erro' = (IF stats_l.erro # "" THEN stats_l.erro ELSE stats_d.erro)
                /\ pc' = "erro"
                /\ UNCHANGED <<estatisticas_blocos, bloco>>
           ELSE /\ estatisticas_blocos' =
                       Append(estatisticas_blocos,
                              BlocoStats(bloco + 1, stats_l, stats_d))
                /\ bloco' = bloco + 1
                /\ pc' = "for_bloco"
                /\ erro' = erro
    /\ UNCHANGED <<cfgVars, otherVars, lista_range, dicionario, block_size,
                   tempos_lista, tempos_dict, amostras, bloco_coletor_lista,
                   bloco_coletor_dict, i, valor, tl, td, stats_glob_lista,
                   stats_glob_dict, arquivos, executadas>>

\* after the inner loop: the block's statistics, appended to
\* estatisticas_blocos; calcular_estatisticas_simples raises on an empty
\* collector
CalcularBloco ==
    /\ pc = "for_i"
    /\ i >= block_size
    /\ LET stats_l == calcular_estatisticas_simples(bloco_coletor_lista)
           stats_d == calcular_estatisticas_simples(bloco_coletor_dict)
       IN  IF stats_l.erro # "" \/ stats_d.erro # ""
           THEN /\ erro' = (IF stats_l.erro # "" THEN stats_l.erro ELSE stats_d.erro)
                /\ pc' = "erro"
                /\ UNCHANGED <<estatisticas_blocos, bloco>>
           ELSE /\ estatisticas_blocos' =
                       Append(estatisticas_blocos,
                              BlocoStats(bloco + 1, stats_l, stats_d))
                /\ bloco' = bloco + 1
                /\ pc' = "for_bloco"
                /\ erro' = erro
    /\ UNCHANGED <<cfgVars, otherVars, lista_range, dicionario, block_size,
                   tempos_lista, tempos_dict, amostras, bloco_coletor_lista,
                   bloco_coletor_dict, i, valor, tl, td, stats_glob_lista,
                   stats_glob_dict, arquivos, executadas>>

\* after the last block: salvar_amostras_csv, salvar_estatisticas_blocos_csv
SalvarCsv ==
    /\ pc = "for_bloco"
    /\ bloco >= N_BLOCKS
    /\ arquivos' = arquivos \cup
                      {[nome |-> "resultados_amostras.csv", conteudo |-> amostras],
                       [nome |-> "estatisticas_blocos.csv",
                        conteudo |-> estatisticas_blocos]}
    /\ pc' = "global"
    /\ UNCHANGED <<cfgVars, otherVars, erro, lista_range, dicionario,
                   block_size, tempos_lista, tempos_dict, amostras,
                   estatisticas_blocos, bloco, bloco_coletor_lista,
                   bloco_coletor_dict, i, valor, tl, td, stats_glob_lista,
                   stats_glob_dict, executadas>>

\* variant: the global statistics taken from the last block's collectors
CalcularGlobal_sobre_ultimo_bloco ==
    /\ pc = "global"
    /\ LET g_l == calcular_estatisticas_simples(bloco_coletor_lista)
           g_d == calcular_estatisticas_simples(bloco_coletor_dict)
       IN  IF g_l.erro # "" \/ g_d.erro # ""
           THEN /\ erro' = (IF g_l.erro # "" THEN g_l.erro ELSE g_d.erro)
                /\ pc' = "erro"
                /\ UNCHANGED <<stats_glob_lista, stats_glob_dict, arquivos>>
           ELSE /\ stats_glob_lista' = g_l
                /\ stats_glob_dict' = g_d
                /\ arquivos' = arquivos \cup
                       {[nome |-> "estatisticas_completas.txt",
                         conteudo |-> <<g_l, g_d>>]}
                /\ pc' = "fim"
                /\ erro' = erro
    /\ UNCHANGED <<cfgVars, otherVars, lista_range, dicionario, block_size,
                   tempos_lista, tempos_dict, amostras, estatisticas_blocos,
                   bloco, bloco_coletor_lista, bloco_coletor_dict, i, valor,
                   tl, td, executadas>>

\* the global statistics over tempos_lista and tempos_dict, and
\* salvar_estatisticas_completas_txt
CalcularGlobal ==
    /\ pc = "global"
    /\ LET g_l == calcular_estatisticas_simples(tempos_lista)
           g_d == calcular_estatisticas_simples(tempos_dict)
       IN  IF g_l.erro # "" \/ g_d.erro # ""
           THEN /\ erro' = (IF g_l.erro # "" THEN g_l.erro ELSE g_d.erro)
                /\ pc' = "erro"
                /\ UNCHANGED <<stats_glob_lista, stats_glob_dict, arquivos>>
           ELSE /\ stats_glob_lista' = g_l
                /\ stats_glob_dict' = g_d
                /\ arquivos' = arquivos \cup
                       {[nome |-> "estatisticas_completas.txt",
                         conteudo |-> <<g_l, g_d>>]}
                /\ pc' = "fim"
                /\ erro' = erro
    /\ UNCHANGED <<cfgVars, otherVars, lista_range, dicionario, block_size,
                   tempos_lista, tempos_dict, amostras, estatisticas_blocos,
                   bloco, bloco_coletor_lista, bloco_coletor_dict, i, valor,
                   tl, td, executadas>>

Next ==
    \/ Validar
    \/ Preparo
    \/ IniciarBloco
    \/ SortearValor
    \/ medir_busca_lista
    \/ medir_busca_dict
    \/ Guardar
    \/ CalcularBloco
    \/ SalvarCsv
    \/ CalcularGlobal

Spec == Init /\ [][Next]_vars

\* ------------------------------------------------------------------------
\* SpecStats: calcular_estatisticas_simples applied to every sequence of at
\* most MaxLen integers of -1..MaxVal
\* ------------------------------------------------------------------------
StatVals == {ToNum(v) : v \in (0 - 1)..MaxVal}

SeqsUpTo(S, m) == UNION {[1..k -> S] : k \in 0..m}

InitStats ==
    /\ RunnerOff /\ CeOff /\ WelchOff
    /\ st_valores \in SeqsUpTo(StatVals, MaxLen)
    /\ st_ret = Nenhum

Summarize ==
    /\ st_ret = Nenhum
    /\ st_ret' = calcular_estatisticas_simples(st_valores)
    /\ UNCHANGED <<st_valores, runnerVars, ceVars, welchVars>>

NextStats == Summarize

SpecStats == InitStats /\ [][NextStats]_vars

\* ------------------------------------------------------------------------
\* SpecEstruturas: criar_estruturas applied to every num_elementos of
\* -MaxN..MaxN, then membership tests on the structures it returned
\* ------------------------------------------------------------------------
InitEstruturas ==
    /\ RunnerOff /\ StatOff /\ WelchOff
    /\ ce_num \in (0 - MaxN)..MaxN
    /\ ce_ret = Nenhum
    /\ ce_valor = 0
    /\ ce_in = Nenhum

Build ==
    /\ ce_ret = Nenhum
    /\ ce_ret' = criar_estruturas(ce_num)
    /\ UNCHANGED <<ce_num, ce_valor, ce_in, runnerVars, statVars, welchVars>>

Membership ==
    /\ ce_ret # Nenhum
    /\ ce_ret.erro = ""
    /\ \E v \in (0 - 1)..(MaxN + 1) :
          /\ ce_valor' = v
          /\ ce_in' = [lista |-> em_lista(v, ce_ret.lista_range),
                       dict  |-> em_dict(v, ce_ret.dicionario)]
    /\ UNCHANGED <<ce_num, ce_ret, runnerVars, statVars, welchVars>>

NextEstruturas == Build \/ Membership

SpecEstruturas == InitEstruturas /\ [][NextEstruturas]_vars

\* ------------------------------------------------------------------------
\* SpecWelch: the two Welch computations applied to every pair of samples
\* of at most MaxW integers of 0..MaxWVal.  calcular_estatisticas.py fills
\* its two arrays from the same CSV rows, so there the sizes are equal.
\* ------------------------------------------------------------------------
InitWelch ==
    /\ RunnerOff /\ StatOff /\ CeOff
    /\ w_x \in SeqsUpTo(0..MaxWVal, MaxW)
    /\ w_y \in SeqsUpTo(0..MaxWVal, MaxW)
    /\ w_analise = Nenhum
    /\ w_calc = Nenhum

WelchAnalise ==
    /\ w_analise = Nenhum
    /\ w_analise' = main_welch(w_x, w_y)
    /\ UNCHANGED <<w_x, w_y, w_calc, runnerVars, statVars, ceVars>>

WelchCalcular ==
    /\ w_calc = Nenhum
    /\ Len(w_x) = Len(w_y)
    /\ w_calc' = welch_bloco(w_x, w_y)
    /\ UNCHANGED <<w_x, w_y, w_analise, runnerVars, statVars, ceVars>>

NextWelch == WelchAnalise \/ WelchCalcular

SpecWelch == InitWelch /\ [][NextWelch]_vars

\* ------------------------------------------------------------------------
\* Properties of executar_experimento_por_blocos
\* ------------------------------------------------------------------------
ConfigValida ==
    /\ NUM_ELEMENTOS > 0 /\ NUM_BUSCAS > 0 /\ N_BLOCKS > 0 /\ TAMANHO_SAMPLE >= 0

\* the iterations of block k (1-based), in execution order
ExecDoBloco(k) ==
    LET DoBloco(e) == e.bloco = k IN SelectSeq(executadas, DoBloco)

\* C1: with a valid configuration and NUM_BUSCAS >= N_BLOCKS the run does
\* not fail, a completed run holds exactly N_BLOCKS block records, and
\* record k has n = NUM_BUSCAS div N_BLOCKS = the iterations executed in
\* block k.
C1_RegistrosPorBloco ==
    (ConfigValida /\ NUM_BUSCAS >= N_BLOCKS) =>
        /\ pc # "erro"
        /\ \A k \in 1..Len(estatisticas_blocos) :
              /\ estatisticas_blocos[k].bloco = k
              /\ estatisticas_blocos[k].n = NUM_BUSCAS \div N_BLOCKS
              /\ estatisticas_blocos[k].n = Len(ExecDoBloco(k))
        /\ pc = "fim" => Len(estatisticas_blocos) = N_BLOCKS

C1_Witness ==
    /\ pc = "fim" /\ N_BLOCKS = 2 /\ NUM_BUSCAS >= 2
    /\ Len(estatisticas_blocos) = 2
    /\ estatisticas_blocos[2].n = 1

RECURSIVE SumN(_)
SumN(recs) == IF recs = <<>> THEN 0 ELSE Head(recs).n + SumN(Tail(recs))

\* C2: the probes per structure never exceed N_BLOCKS * (NUM_BUSCAS div
\* N_BLOCKS), and at completion the probes and the n of both global records
\* equal that product, which is the sum of the block records' n.
C2_RestoNaoExecutado ==
    ConfigValida =>
        /\ Len(executadas) <= N_BLOCKS * (NUM_BUSCAS \div N_BLOCKS)
        /\ pc = "fim" =>
              /\ Len(executadas) = N_BLOCKS * (NUM_BUSCAS \div N_BLOCKS)
              /\ stats_glob_lista.n = N_BLOCKS * (NUM_BUSCAS \div N_BLOCKS)
              /\ stats_glob_dict.n = N_BLOCKS * (NUM_BUSCAS \div N_BLOCKS)
              /\ stats_glob_lista.n = SumN(estatisticas_blocos)

C2_Witness ==
    /\ pc = "fim" /\ NUM_BUSCAS = 3 /\ N_BLOCKS = 2
    /\ stats_glob_lista.n = 2 /\ stats_glob_dict.n = 2
    /\ Len(executadas) = 2

IsPrefix(s, t) == Len(s) <= Len(t) /\ \A k \in 1..Len(s) : s[k] = t[k]

Triple(e) == <<e.valor, e.tl, e.td>>

C3_Estado ==
    TAMANHO_SAMPLE >= 0 =>
        /\ Len(amostras) <= TAMANHO_SAMPLE
        /\ Len(amostras) = Min2(TAMANHO_SAMPLE, Len(executadas))
        /\ \A k \in 1..Len(amostras) : amostras[k] = Triple(executadas[k])
        /\ pc = "fim" =>
              Len(amostras) =
                  Min2(TAMANHO_SAMPLE, N_BLOCKS * (NUM_BUSCAS \div N_BLOCKS))

\* C3: amostras never holds more than TAMANHO_SAMPLE triples, every step
\* leaves it alone or appends to it, and it is always (so also at
\* completion) the first min(TAMANHO_SAMPLE, executed) triples in
\* execution order across blocks.
C3_AmostrasLimitadas == []C3_Estado /\ [][IsPrefix(amostras, amostras')]_vars

C3_Witness ==
    /\ pc = "fim" /\ TAMANHO_SAMPLE = 1 /\ N_BLOCKS = 2
    /\ Len(executadas) = 2
    /\ amostras = <<Triple(executadas[1])>>

InvalidConfigurationErros ==
    {"N_BLOCKS deve ser >= 1.", "NUM_BUSCAS deve ser > 0.",
     "NUM_ELEMENTOS deve ser > 0.", "TAMANHO_SAMPLE nao pode ser negativo."}

\* C4: with N_BLOCKS <= 0, NUM_BUSCAS <= 0, NUM_ELEMENTOS <= 0 or
\* TAMANHO_SAMPLE < 0 the run goes from the validations straight to the
\* failure: nothing is built, probed, timed, sampled, recorded or written.
C4_FalhaAntesDeMedir ==
    ~ConfigValida =>
        /\ pc \in {"validar", "erro"}
        /\ pc = "erro" => erro \in InvalidConfigurationErros
        /\ lista_range = {} /\ dicionario = <<>>
        /\ executadas = <<>>
        /\ tempos_lista = <<>> /\ tempos_dict = <<>>
        /\ bloco_coletor_lista = <<>> /\ bloco_coletor_dict = <<>>
        /\ amostras = <<>>
        /\ estatisticas_blocos = <<>>
        /\ stats_glob_lista = Nenhum /\ stats_glob_dict = Nenhum
        /\ arquivos = {}

C4_Witness ==
    /\ pc = "erro" /\ NUM_ELEMENTOS = 0
    /\ NUM_BUSCAS > 0 /\ N_BLOCKS > 0 /\ TAMANHO_SAMPLE >= 0
    /\ erro = "NUM_ELEMENTOS deve ser > 0."

\* min(t, 2^32 - 1) for t >= 0
Min32(t) == IF t[1] >= 65536 THEN <<65535, 65535>> ELSE t

In32(t) == t[1] >= 0 /\ t[1] <= 65535

Clamped(execs, campo) == [k \in 1..Len(execs) |-> Min32(execs[k][campo])]

IsMaxOf(m, s) ==
    /\ \E k \in 1..Len(s) : s[k] = m
    /\ \A k \in 1..Len(s) : NumLeq(s[k], m)

IsMinOf(m, s) ==
    /\ \E k \in 1..Len(s) : s[k] = m
    /\ \A k \in 1..Len(s) : NumLeq(m, s[k])

\* C6: every value of the global and block-local sequences is
\* min(raw, 2^32 - 1), so within [0, 2^32 - 1]; the block and global
\* statistics are those of the clamped values; the triples of amostras
\* carry the raw times of the same iteration.
C6_TemposCortados ==
    /\ tempos_lista = Clamped(executadas, "tl")
    /\ tempos_dict = Clamped(executadas, "td")
    /\ \A k \in 1..Len(tempos_lista) : In32(tempos_lista[k]) /\ In32(tempos_dict[k])
    /\ pc \in {"for_i", "medir_lista", "medir_dict", "guardar"} =>
          /\ bloco_coletor_lista = Clamped(ExecDoBloco(bloco + 1), "tl")
          /\ bloco_coletor_dict = Clamped(ExecDoBloco(bloco + 1), "td")
    /\ \A k \in 1..Len(amostras) :
          /\ amostras[k][2] = executadas[k].tl
          /\ amostras[k][3] = executadas[k].td
    /\ \A k \in 1..Len(estatisticas_blocos) :
          /\ IsMaxOf(estatisticas_blocos[k].lista_max, Clamped(ExecDoBloco(k), "tl"))
          /\ IsMinOf(estatisticas_blocos[k].lista_min, Clamped(ExecDoBloco(k), "tl"))
          /\ IsMaxOf(estatisticas_blocos[k].dict_max, Clamped(ExecDoBloco(k), "td"))
          /\ IsMinOf(estatisticas_blocos[k].dict_min, Clamped(ExecDoBloco(k), "td"))
          /\ estatisticas_blocos[k].lista_media[1] = NumSum(Clamped(ExecDoBloco(k), "tl"))
          /\ estatisticas_blocos[k].dict_media[1] = NumSum(Clamped(ExecDoBloco(k), "td"))
    /\ pc = "fim" =>
          /\ IsMaxOf(stats_glob_lista.max, Clamped(executadas, "tl"))
          /\ IsMaxOf(stats_glob_dict.max, Clamped(executadas, "td"))
          /\ stats_glob_lista.media[1] = NumSum(Clamped(executadas, "tl"))
          /\ stats_glob_dict.media[1] = NumSum(Clamped(executadas, "td"))

C6_Witness ==
    /\ pc = "fim"
    /\ Len(amostras) >= 1
    /\ amostras[1][2] = <<65536, 0>>
    /\ tempos_lista[1] = <<65535, 65535>>
    /\ estatisticas_blocos[1].lista_max = <<65535, 65535>>
    /\ stats_glob_lista.max = <<65535, 65535>>

\* ------------------------------------------------------------------------
\* Properties of criar_estruturas
\* ------------------------------------------------------------------------
CeBuilt == ce_ret # Nenhum

CeMembersAre(lo, hi) ==
    /\ ce_ret.lista_range = {k \in (0 - MaxN - 1)..(MaxN + 1) : lo <= k /\ k < hi}
    /\ DOMAIN ce_ret.dicionario = ce_ret.lista_range
    /\ ce_in # Nenhum =>
          /\ ce_in.lista = (lo <= ce_valor /\ ce_valor < hi)
          /\ ce_in.dict = (lo <= ce_valor /\ ce_valor < hi)

\* C5 (as stated): criar_estruturas fails whenever num_elementos <= 0, and
\* for num_elementos > 0 both structures hold exactly 0 .. num_elementos-1.
C5_Original ==
    CeBuilt =>
        /\ ce_num <= 0 => ce_ret.erro # ""
        /\ ce_num > 0 => ce_ret.erro = "" /\ CeMembersAre(0, ce_num)

\* C5 (amended): criar_estruturas never fails; for num_elementos <= 0 both
\* structures are empty, for num_elementos > 0 both hold exactly
\* 0 .. num_elementos-1.
C5_Amended ==
    CeBuilt =>
        /\ ce_ret.erro = ""
        /\ ce_num <= 0 => CeMembersAre(0, 0)
        /\ ce_num > 0 => CeMembersAre(0, ce_num)

C5_Witness ==
    /\ CeBuilt /\ ce_num < 0 /\ ce_ret.erro = ""
    /\ ce_ret.lista_range = {}
    /\ ce_in # Nenhum /\ ce_valor = 0 /\ ~ce_in.lista /\ ~ce_in.dict

\* ------------------------------------------------------------------------
\* Properties of calcular_estatisticas_simples
\* ------------------------------------------------------------------------
StDone == st_ret # Nenhum /\ st_ret.erro = ""

Rank(s, k) ==
    CHOOSE v \in {s[j] : j \in 1..Len(s)} :
        /\ Cardinality({j \in 1..Len(s) : NumLt(s[j], v)}) <= k
        /\ k < Cardinality({j \in 1..Len(s) : NumLeq(s[j], v)})

\* 4 * (sorted[lo]*(1-frac) + sorted[hi]*frac) for position = (q4/4)*(n-1)
InterpolatedQuantile(s, q4) ==
    LET n    == Len(s)
        lo   == (q4 * (n - 1)) \div 4
        hi   == IF lo + 1 <= n - 1 THEN lo + 1 ELSE n - 1
        frac == q4 * (n - 1) - 4 * lo
    IN  NumAdd(NumScale(4 - frac, Rank(s, lo)), NumScale(frac, Rank(s, hi)))

Nums(s) == [j \in 1..Len(s) |-> ToNum(s[j])]

\* C8: each quantile is the linear interpolation at position q*(n-1) of the
\* sorted input; [1,2,3,4] gives mediana 2.5, q1 1.75, q3 3.25, min 1,
\* max 4; a one-element sequence gives that element five times.
C8_QuantilInterpolado ==
    StDone =>
        /\ st_ret.q1 = InterpolatedQuantile(st_valores, 1)
        /\ st_ret.mediana = InterpolatedQuantile(st_valores, 2)
        /\ st_ret.q3 = InterpolatedQuantile(st_valores, 3)
        /\ st_valores = Nums(<<1, 2, 3, 4>>) =>
              /\ st_ret.mediana = ToNum(10)
              /\ st_ret.q1 = ToNum(7)
              /\ st_ret.q3 = ToNum(13)
              /\ st_ret.min = ToNum(1)
              /\ st_ret.max = ToNum(4)
        /\ Len(st_valores) = 1 =>
              /\ st_ret.mediana = NumScale(4, st_valores[1])
              /\ st_ret.q1 = NumScale(4, st_valores[1])
              /\ st_ret.q3 = NumScale(4, st_valores[1])
              /\ st_ret.min = st_valores[1]
              /\ st_ret.max = st_valores[1]

C8_Witness ==
    /\ StDone
    /\ st_valores = Nums(<<4, 1, 3, 2>>)
    /\ st_ret.mediana = ToNum(10)
    /\ st_ret.q1 = ToNum(7)
    /\ st_ret.q3 = ToNum(13)

\* ------------------------------------------------------------------------
\* Properties of the Welch computations
\* ------------------------------------------------------------------------
SampleVar(x) == Rat(Len(x) * SumSq(x) - SumSeq(x) * SumSeq(x), Len(x) * (Len(x) - 1))

Mean(x) == Rat(SumSeq(x), Len(x))

\* t and df of two samples of two or more elements each and not both
\* constant, from the sample variances
WelchFromSampleVariances(x, y) ==
    LET a == RatDiv(SampleVar(x), <<Len(x), 1>>)
        b == RatDiv(SampleVar(y), <<Len(y), 1>>)
        d == RatSub(Mean(x), Mean(y))
    IN  [t  |-> [k |-> "fin", sgn |-> Sign(d[1]),
                 sq |-> RatDiv(RatMul(d, d), RatAdd(a, b))],
         df |-> Fin(RatDiv(RatMul(RatAdd(a, b), RatAdd(a, b)),
                           RatAdd(RatDiv(RatMul(a, a), <<Len(x) - 1, 1>>),
                                  RatDiv(RatMul(b, b), <<Len(y) - 1, 1>>))))]

Degenerate(x, y) ==
    \/ Len(x) < 2
    \/ Len(y) < 2
    \/ (SampleVar(x)[1] = 0 /\ SampleVar(y)[1] = 0)

IsWelchFromSampleVariances(r) ==
    (r # Nenhum /\ r.erro = "" /\ ~Degenerate(w_x, w_y)) =>
        /\ r.t = WelchFromSampleVariances(w_x, w_y).t
        /\ r.df = WelchFromSampleVariances(w_x, w_y).df

\* C9: every Welch computation of the repository derives t and df from the
\* sample variances (divisor n-1) of the two sequences.
C9_VarianciasAmostrais ==
    /\ IsWelchFromSampleVariances(w_analise)
    /\ IsWelchFromSampleVariances(w_calc)

\* C9, welch_ttest of analise_resultados.py alone: it does derive t and df
\* from the sample variances
C9_SoAnalise == IsWelchFromSampleVariances(w_analise)

C9_SoAnalise_Witness ==
    /\ w_analise # Nenhum /\ ~Degenerate(w_x, w_y)
    /\ w_analise.t.k = "fin" /\ w_analise.t.sgn = 0 - 1

FailsInsufficientSamples(r) ==
    (r # Nenhum /\ Degenerate(w_x, w_y)) => r.erro = "InsufficientSamples"

\* C10: with a sequence of fewer than 2 elements or varX/nX + varY/nY = 0,
\* the computation fails with InsufficientSamples: no NaN, no infinity, no
\* unhandled division by zero.
C10_InsufficientSamples ==
    /\ FailsInsufficientSamples(w_analise)
    /\ FailsInsufficientSamples(w_calc)

\* equality of two floats: NaN equals nothing
FEq(a, b) == a.k # "nan" /\ b.k # "nan" /\ a = b

TIsZero(t) == t.k = "fin" /\ t.sgn = 0

TIsNegative(t) == (t.k = "fin" /\ t.sgn < 0) \/ (t.k = "inf" /\ t.s < 0)

MeanLess(x, y) == SumSeq(x) * Len(y) < SumSeq(y) * Len(x)

WelchResultOk(r) ==
    /\ r.erro = ""
    /\ (w_x = w_y) =>
          /\ TIsZero(r.t)
          /\ FEq(r.p_two, Fin(<<1, 1>>))
          /\ FEq(r.p_left, Fin(<<1, 2>>))
          /\ FEq(r.p_right, Fin(<<1, 2>>))
    /\ FEq(r.p_right, OneMinus(r.p_left))
    /\ TIsNegative(r.t) <=> MeanLess(w_x, w_y)

\* C11: on two identical (non-empty) sequences the result has t = 0,
\* p_two = 1, p_left = p_right = 0.5; every result has p_right = 1 - p_left
\* and t < 0 exactly when mean(x) < mean(y).
C11_ResultadoWelch ==
    (Len(w_x) >= 1 /\ Len(w_y) >= 1) =>
        /\ w_analise # Nenhum => WelchResultOk(w_analise)
        /\ w_calc # Nenhum => WelchResultOk(w_calc)

\* C11 on the inputs C10 excludes (two or more elements each, not both
\* constant): there both computations satisfy it
C11_ForaDosDegenerados ==
    ~Degenerate(w_x, w_y) =>
        /\ w_analise # Nenhum => WelchResultOk(w_analise)
        /\ w_calc # Nenhum => WelchResultOk(w_calc)

C11_ForaDosDegenerados_Witness ==
    /\ w_x = w_y /\ ~Degenerate(w_x, w_y)
    /\ w_analise # Nenhum /\ w_calc # Nenhum
    /\ TIsZero(w_analise.t) /\ w_analise.p_left = Fin(<<1, 2>>)

\* the statistics of the non-empty sequence s, stated field by field
IsSummaryOf(n, media, mediana, q1, q3, mn, mx, s) ==
    /\ n = Len(s)
    /\ media = <<NumSum(s), Len(s)>>
    /\ mediana = InterpolatedQuantile(s, 2)
    /\ q1 = InterpolatedQuantile(s, 1)
    /\ q3 = InterpolatedQuantile(s, 3)
    /\ IsMinOf(mn, s)
    /\ IsMaxOf(mx, s)

IsRecordOfBlock(r, k) ==
    /\ r.bloco = k
    /\ ExecDoBloco(k) # <<>>
    /\ IsSummaryOf(r.n, r.lista_media, r.lista_mediana, r.lista_q1, r.lista_q3,
                   r.lista_min, r.lista_max, Clamped(ExecDoBloco(k), "tl"))
    /\ IsSummaryOf(r.n, r.dict_media, r.dict_mediana, r.dict_q1, r.dict_q3,
                   r.dict_min, r.dict_max, Clamped(ExecDoBloco(k), "td"))

C12_Estado ==
    /\ Len(estatisticas_blocos) <= N_BLOCKS \/ estatisticas_blocos = <<>>
    /\ \A k \in 1..Len(estatisticas_blocos) :
          IsRecordOfBlock(estatisticas_blocos[k], k)

\* C12: record k is the statistics of the clamped times of block k's own
\* iterations; records are appended one at a time in the order 1, 2, ...;
\* no step changes or removes a record already appended.
C12_RegistrosSoDoBloco ==
    /\ []C12_Estado
    /\ [][/\ IsPrefix(estatisticas_blocos, estatisticas_blocos')
          /\ Len(estatisticas_blocos') <= Len(estatisticas_blocos) + 1]_vars

C12_Witness ==
    /\ pc = "fim"
    /\ Len(estatisticas_blocos) = 2
    /\ estatisticas_blocos[1].bloco = 1
    /\ estatisticas_blocos[1].lista_max = ToNum(7)
    /\ estatisticas_blocos[2].bloco = 2
    /\ estatisticas_blocos[2].lista_min = <<65535, 65535>>
    /\ stats_glob_lista.min = ToNum(7)

BlocoVazio == ConfigValida /\ N_BLOCKS > NUM_BUSCAS

C13_Estado ==
    BlocoVazio =>
        /\ pc \in {"validar", "preparo", "for_bloco", "for_i", "erro"}
        /\ executadas = <<>>
        /\ tempos_lista = <<>> /\ tempos_dict = <<>> /\ amostras = <<>>
        /\ estatisticas_blocos = <<>>
        /\ stats_glob_lista = Nenhum /\ stats_glob_dict = Nenhum
        /\ arquivos = {}
        /\ pc = "erro" => erro = ErroVazia
        /\ pc # "erro" => erro = "" /\ ENABLED Next

\* C13: with a valid configuration and N_BLOCKS > NUM_BUSCAS the block size
\* is 0 and the run ends in the empty-list error raised by the statistics of
\* the first block: no probe is executed, no block record is appended, no
\* global statistics are computed and no file is written; the run never
\* completes.
C13_BlocoVazioAborta ==
    /\ []C13_Estado
    /\ [][BlocoVazio /\ pc = "for_i" =>
            /\ block_size = 0 /\ bloco = 0
            /\ pc' = "erro" /\ erro' = ErroVazia]_vars

C13_Witness ==
    /\ BlocoVazio
    /\ N_BLOCKS = 2 /\ NUM_BUSCAS = 1
    /\ pc = "erro" /\ erro = ErroVazia
    /\ estatisticas_blocos = <<>> /\ arquivos = {}

RECURSIVE ConcatBlocos(_, _)
\* the clamped times of blocks 1..k, block after block
ConcatBlocos(k, campo) ==
    IF k = 0 THEN <<>>
    ELSE ConcatBlocos(k - 1, campo) \o Clamped(ExecDoBloco(k), campo)

IsGlobalOf(g, campo) ==
    /\ g # Nenhum
    /\ ConcatBlocos(N_BLOCKS, campo) # <<>>
    /\ IsSummaryOf(g.n, g.media, g.mediana, g.q1, g.q3, g.min, g.max,
                   ConcatBlocos(N_BLOCKS, campo))

TodosOsBlocosCompletos ==
    /\ Len(estatisticas_blocos) = N_BLOCKS
    /\ Len(executadas) = N_BLOCKS * block_size
    /\ \A k \in 1..N_BLOCKS : Len(ExecDoBloco(k)) = block_size

C14_Estado ==
    \* iterations are recorded block after block, and a block has a record
    \* only when all its probes are done and no later block has started
    /\ \A a, b \in 1..Len(executadas) :
          a <= b => executadas[a].bloco <= executadas[b].bloco
    /\ \A a \in 1..Len(executadas) :
          /\ executadas[a].bloco \in 1..(Len(estatisticas_blocos) + 1)
    /\ \A k \in 1..Len(estatisticas_blocos) :
          Len(ExecDoBloco(k)) = block_size
    \* global records and files exist only once every block is complete
    /\ (stats_glob_lista # Nenhum \/ stats_glob_dict # Nenhum) =>
          /\ TodosOsBlocosCompletos
          /\ IsGlobalOf(stats_glob_lista, "tl")
          /\ IsGlobalOf(stats_glob_dict, "td")
    /\ arquivos # {} => TodosOsBlocosCompletos

C14_Passo ==
    \* list probe, then dictionary probe of the same value, then the record
    /\ pc = "medir_lista" => pc' = "medir_dict" /\ valor' = valor /\ td' = td
    /\ pc' = "medir_dict" => pc = "medir_lista"
    /\ pc = "medir_dict" => pc' = "guardar" /\ valor' = valor /\ tl' = tl
    /\ pc' = "guardar" => pc = "medir_dict"
    /\ pc = "guardar" =>
          executadas' = Append(executadas,
              [bloco |-> bloco + 1, valor |-> valor, tl |-> tl, td |-> td])
    /\ executadas' # executadas => pc = "guardar"
    /\ pc \in {"medir_lista", "medir_dict", "guardar"} =>
          estatisticas_blocos' = estatisticas_blocos
    /\ (valor' # valor \/ pc' = "medir_lista") =>
          pc \in {"validar", "preparo", "for_i"}
    \* the record of block k: after its last probe, before block k + 1
    /\ estatisticas_blocos' # estatisticas_blocos =>
          /\ Len(estatisticas_blocos') = Len(estatisticas_blocos) + 1
          /\ Len(ExecDoBloco(Len(estatisticas_blocos) + 1)) = block_size
          /\ \A a \in 1..Len(executadas) :
                executadas[a].bloco <= Len(estatisticas_blocos) + 1
          /\ executadas' = executadas
    \* the global records: once, together, after the last block's record
    /\ (stats_glob_lista' # stats_glob_lista
            \/ stats_glob_dict' # stats_glob_dict) =>
          /\ stats_glob_lista = Nenhum /\ stats_glob_dict = Nenhum
          /\ stats_glob_lista' # Nenhum /\ stats_glob_dict' # Nenhum
          /\ TodosOsBlocosCompletos
          /\ estatisticas_blocos' = estatisticas_blocos
    /\ arquivos' # arquivos => TodosOsBlocosCompletos

\* C14: in every run the list probe of a value is followed by the dictionary
\* probe of the same value with no other probe in between; the record of
\* block k is appended after block k's last probe and before any probe of
\* block k + 1; the two global records are set once, after the last block's
\* record, from the times of all blocks concatenated in block order; files
\* are written only after every block is complete.
C14_OrdemDosEventos ==
    /\ []C14_Estado
    /\ [][C14_Passo]_vars

C14_Witness ==
    /\ pc = "fim"
    /\ N_BLOCKS = 2 /\ block_size = 1
    /\ Len(executadas) = 2
    /\ executadas[1].tl # executadas[2].tl
    /\ stats_glob_lista # Nenhum /\ stats_glob_lista.n = 2
    /\ stats_glob_dict # Nenhum /\ stats_glob_dict.n = 2
    /\ Cardinality(arquivos) = 3

====
